---------------------------- MODULE Spec2Model ----------------------------
(***************************************************************************)
(* Live MART backend: the checkout transaction (database.py), the          *)
(* password-reset OTP flow (main.py) and the role-checking bearer-token    *)
(* dependencies (auth.py), modelled as state machines over the database    *)
(* tables they read and write.                                             *)
(*                                                                         *)
(* Money is modelled in whole units (Product.price is a float in the       *)
(* source; the total is accumulated in cart order exactly as the code      *)
(* does).  Request handlers run on a thread pool, so each handler is a     *)
(* thread that moves through the program points between its database       *)
(* round trips.                                                            *)
(***************************************************************************)
EXTENDS Integers, Sequences, FiniteSets, TLC

(***************************************************************************)
(* Bounds of the model.                                                    *)
(***************************************************************************)
\* largest initial stock of a product
MaxStock == 2
\* product prices are drawn from 1..MaxPrice
MaxPrice == 2
\* largest quantity of a cart line
MaxQty == 2
\* ShoppingCartItem rows ever inserted
MaxItemRows == 2
\* OrderRecords rows ever inserted
MaxOrders == 2
\* steps the clock takes
MaxTicks == 3
\* PasswordReset rows ever inserted
MaxResets == 2
\* bearer tokens ever issued
MaxTokens == 2
\* accounts ever created by signup and Google login
MaxSignups == 2

Customers == {"c1", "c2"}
Products == {"p1", "p2"}
Threads == {"t1", "t2"}
Roles == {"customer", "retailer", "wholesaler"}
Emails == {"a@mart", "b@mart"}
Passwords == {"pw0", "pw1"}
Otps == {"111111", "222222"}

\* expiration = datetime.utcnow() + timedelta(minutes=10)
OTP_VALID_MINUTES == 10
\* ACCESS_TOKEN_EXPIRE_MINUTES = 60 * 24
ACCESS_TOKEN_EXPIRE_MINUTES == 60 * 24

VARIABLES
    hasCart,          \* ShoppingCart: customer -> a cart row exists
    cartItems,        \* ShoppingCartItem rows: [id, customer_id, product_id, quantity]
    nextItemId,       \* autoincrement key of ShoppingCartItem
    price,            \* Product.price
    stock,            \* Product.stock
    no_of_purchases,  \* Customer.no_of_purchases
    orders,           \* OrderRecords rows, in id order (id = position)
    orderItems,       \* OrderItem rows, in id order
    pc,               \* thread -> program point of the request it serves
    ck,               \* thread -> locals of process_checkout
    accounts,         \* Customer, Retailer and Wholesaler rows:
                      \*   [id, role, mail, hashed_password, is_verified]
    resets,           \* PasswordReset rows: [id, email, otp, expires_at]
                      \*   (issued_at: when forgot_password read the clock)
    nextResetId,      \* autoincrement key of PasswordReset
    tokens,           \* bearer tokens issued so far: [sub, role, exp]
    now,              \* datetime.utcnow(), in minutes
    ticks,            \* steps the clock has taken
    spent,            \* history: (email, otp) pairs a reset has succeeded
                      \*   with, until forgot_password writes a new OTP
    rq,               \* thread -> locals of the auth request it serves
    verifications,    \* verification OTPs stored at signup: [email, otp]
    productRows       \* the products that have a row in the Product table

shopVars == <<hasCart, cartItems, nextItemId, price, stock, no_of_purchases,
              orders, orderItems, ck>>

authVars == <<accounts, resets, nextResetId, tokens, now, ticks, spent, rq>>

vars == <<shopVars, authVars, verifications, productRows, pc>>

----------------------------------------------------------------------------
(***************************************************************************)
(* Helpers: SELECT ... WHERE shopping_cart_id = cart.id, rows in key order.*)
(***************************************************************************)
MinId(S) == CHOOSE r \in S : \A q \in S : r.id <= q.id

RECURSIVE SortById(_)
SortById(S) == IF S = {} THEN <<>>
               ELSE <<MinId(S)>> \o SortById(S \ {MinId(S)})

CartRows(c) == {r \in cartItems : r.customer_id = c}

\* the join of ShoppingCartItem with Product that process_checkout selects
JoinRow(r) == [item_id |-> r.id, product_id |-> r.product_id,
               quantity |-> r.quantity, price |-> price[r.product_id],
               stock |-> stock[r.product_id]]

\* (faulty variant: the lines of every cart are selected)
SelectCartItems_EveryCart(c) ==
    LET rows == SortById(cartItems)
    IN  [k \in 1..Len(rows) |-> JoinRow(rows[k])]

SelectCartItems(c) ==
    LET rows == SortById(CartRows(c))
    IN  [k \in 1..Len(rows) |-> JoinRow(rows[k])]

\* (faulty variant: only the first line is checked)
FirstInsufficient_FirstLineOnly(items, k) ==
    IF items # << >> /\ items[1].stock < items[1].quantity THEN 1 ELSE 0

\* first line of the snapshot whose product has too little stock, 0 if none
RECURSIVE FirstInsufficient(_, _)
FirstInsufficient(items, k) ==
    IF k > Len(items) THEN 0
    ELSE IF items[k].stock < items[k].quantity THEN k
    ELSE FirstInsufficient(items, k + 1)

\* (faulty variant: the quantity is left out of the total)
RECURSIVE CartTotal_PriceOnly(_, _)
CartTotal_PriceOnly(items, k) ==
    IF k > Len(items) THEN 0
    ELSE items[k].price + CartTotal_PriceOnly(items, k + 1)

\* total_price += product.price * item.quantity, in cart order
RECURSIVE CartTotal(_, _)
CartTotal(items, k) ==
    IF k > Len(items) THEN 0
    ELSE items[k].price * items[k].quantity + CartTotal(items, k + 1)

\* (faulty variant: every order item records one unit)
NewOrderItem_UnitQuantity(order_id, p, qty, pr) ==
    [orderrecords_id |-> order_id, product_id |-> p, quantity |-> 1,
     price_at_purchase |-> pr]

\* OrderItem(orderrecords_id=order.id, product_id=product.id,
\*           quantity=item.quantity, price_at_purchase=product.price)
NewOrderItem(order_id, p, qty, pr) ==
    [orderrecords_id |-> order_id, product_id |-> p, quantity |-> qty,
     price_at_purchase |-> pr]

\* (faulty variant: the stock is lowered by one unit per line)
DecreaseStock_ByOne(cur, qty) == cur - 1

\* product.stock -= item.quantity
DecreaseStock(cur, qty) == cur - qty

\* (faulty variant: every cart line of every customer is deleted)
DeleteItems_All(rows, ids) == {}

\* for item, _ in cart_items: session.delete(item)
DeleteItems(rows, ids) == {r \in rows : r.id \notin ids}

\* (faulty variant: every order waits for its payment)
PaymentStatus_AlwaysPending(pm) == "Pending"

\* "Pending" if payment_mode == "Cash on Delivery" else "Completed"
PaymentStatus(pm) == IF pm = "Cash on Delivery" THEN "Pending" ELSE "Completed"

NoResult == [code |-> 0, detail |-> "none", product |-> "none", order_id |-> 0]
Ok(order_id) == [code |-> 200, detail |-> "order", product |-> "none",
                 order_id |-> order_id]
Err(code, detail, p) == [code |-> code, detail |-> detail, product |-> p,
                         order_id |-> 0]

\* database as it was when a request started (history, read by the
\* properties only)
NoPre == [stock |-> << >>, price |-> << >>, hasCart |-> << >>,
          cartItems |-> {}, orders |-> << >>, orderItems |-> << >>,
          no_of_purchases |-> << >>]

\* locals of a thread that runs no checkout
NoCk == [customer_id |-> "none", payment_mode |-> "none", cart_items |-> << >>,
         total_price |-> 0, order_id |-> 0, i |-> 0, new_items |-> << >>,
         new_stock |-> << >>, result |-> NoResult, pre |-> NoPre]

----------------------------------------------------------------------------
\* an empty shop: the catalogue is seeded, nobody has a cart or an order
ShopInit ==
    /\ hasCart = [c \in Customers |-> FALSE]
    /\ cartItems = {}
    /\ nextItemId = 1
    /\ no_of_purchases = [c \in Customers |-> 0]
    /\ orders = <<>>
    /\ orderItems = <<>>
    /\ pc = [t \in Threads |-> "idle"]
    /\ ck = [t \in Threads |-> NoCk]

\* the seeded catalogue: two products of different price and stock
Catalogue == [p \in Products |-> IF p = "p1" THEN 1 ELSE MaxPrice]
Inventory == [p \in Products |-> IF p = "p1" THEN 1 ELSE MaxStock]

\* the payment mode each customer sends
ModeOf(c) == IF c = "c1" THEN "Cash on Delivery" ELSE "UPI"

\* hash_password: sha256 of the password, hex
hash_password(password) == <<"sha256", password>>

\* (faulty variant: every password is taken for the right one)
verify_password_Any(input_password, hashed_password) == TRUE

\* verify_password
verify_password(input_password, hashed_password) ==
    hash_password(input_password) = hashed_password

\* the seeded accounts: a@mart is a customer and a retailer, b@mart is a
\* customer who has not verified the address yet and a wholesaler
SeedAccounts ==
    {[id |-> 1, role |-> "customer", mail |-> "a@mart",
      hashed_password |-> hash_password("pw0"), is_verified |-> TRUE],
     [id |-> 2, role |-> "customer", mail |-> "b@mart",
      hashed_password |-> hash_password("pw0"), is_verified |-> FALSE],
     [id |-> 1, role |-> "retailer", mail |-> "a@mart",
      hashed_password |-> hash_password("pw0"), is_verified |-> TRUE],
     [id |-> 1, role |-> "wholesaler", mail |-> "b@mart",
      hashed_password |-> hash_password("pw0"), is_verified |-> TRUE]}

NoAuthResult == [code |-> 0, detail |-> "none"]
NoToken == [sub |-> "none", role |-> "none", exp |-> 0, signed |-> FALSE]
NoReset == [id |-> 0, email |-> "none", otp |-> "none", expires_at |-> 0,
            issued_at |-> 0]

\* locals of a thread that serves no auth request; pre_* is the database
\* as it was when the request was handled (history)
NoRq == [op |-> "none", role |-> "none", email |-> "none", otp |-> "none",
         password |-> "none", cred |-> NoToken, expiration |-> 0,
         issued_at |-> 0, existing |-> {}, at |-> 0, matched |-> NoReset,
         user |-> "none", result |-> NoAuthResult,
         pre_accounts |-> {}, pre_resets |-> {}, pre_spent |-> {}]

AuthInit ==
    /\ accounts = SeedAccounts
    /\ resets = {}
    /\ nextResetId = 1
    /\ tokens = {}
    /\ now = 0
    /\ ticks = 0
    /\ spent = {}
    /\ rq = [t \in Threads |-> NoRq]
    /\ verifications = {}
    /\ productRows = Products

Init == ShopInit /\ price = Catalogue /\ stock = Inventory /\ AuthInit

\* add_item_to_cart: creates the cart when missing, then adds to the
\* existing line of that product or inserts a new line
AddItemToCart(t, c, p, q) ==
    /\ pc[t] = "idle"
    /\ hasCart' = [hasCart EXCEPT ![c] = TRUE]
    /\ LET existing == {r \in CartRows(c) : r.product_id = p}
       IN  IF existing # {}
           THEN LET r == MinId(existing)
                IN  /\ r.quantity + q <= MaxQty
                    /\ cartItems' = (cartItems \ {r}) \cup
                                    {[r EXCEPT !.quantity = r.quantity + q]}
                    /\ UNCHANGED nextItemId
           ELSE /\ nextItemId <= MaxItemRows
                /\ cartItems' = cartItems \cup
                      {[id |-> nextItemId, customer_id |-> c,
                        product_id |-> p, quantity |-> q]}
                /\ nextItemId' = nextItemId + 1
    /\ UNCHANGED <<price, stock, no_of_purchases, orders, orderItems, pc, ck,
                   authVars>>
    /\ UNCHANGED <<verifications, productRows>>

----------------------------------------------------------------------------
(***************************************************************************)
(* process_checkout.  The session commits twice: the order row alone       *)
(* (session.commit() after session.add(order)), then everything else.      *)
(* The first commit expires every object of the session, so the second     *)
(* loop reloads each cart line and product from the database when it       *)
(* touches them.                                                           *)
(***************************************************************************)
Snapshot == [stock |-> stock, price |-> price, hasCart |-> hasCart,
             cartItems |-> cartItems, orders |-> orders,
             orderItems |-> orderItems, no_of_purchases |-> no_of_purchases]

\* 1. get cart and its lines, 2. check stock and compute the total
CheckoutBegin(t, c, pm) ==
    /\ pc[t] = "idle"
    /\ Len(orders) < MaxOrders
    /\ LET items == SelectCartItems(c)
           k == FirstInsufficient(items, 1)
           fail(r) == /\ pc' = [pc EXCEPT ![t] = "done"]
                      /\ ck' = [ck EXCEPT ![t] = [NoCk EXCEPT
                                 !.customer_id = c, !.payment_mode = pm,
                                 !.cart_items = items, !.result = r,
                                 !.pre = Snapshot]]
       IN  IF ~hasCart[c] THEN fail(Err(404, "Cart not found", "none"))
           ELSE IF items = << >> THEN fail(Err(400, "Cart is empty", "none"))
           ELSE IF k # 0
                THEN fail(Err(400, "Insufficient stock", items[k].product_id))
           ELSE /\ pc' = [pc EXCEPT ![t] = "ck_order"]
                /\ ck' = [ck EXCEPT ![t] = [NoCk EXCEPT
                           !.customer_id = c, !.payment_mode = pm,
                           !.cart_items = items,
                           !.total_price = CartTotal(items, 1),
                           !.pre = Snapshot]]
    /\ UNCHANGED <<hasCart, cartItems, nextItemId, price, stock,
                   no_of_purchases, orders, orderItems, authVars>>
    /\ UNCHANGED <<verifications, productRows>>

\* 3. create the order record: session.add(order); session.commit();
\* session.refresh(order)
CheckoutCommitOrder(t) ==
    /\ pc[t] = "ck_order"
    /\ LET id == Len(orders) + 1
       IN  /\ orders' = Append(orders,
                  [id |-> id, customer_id |-> ck[t].customer_id,
                   status |-> "Processing",
                   total_price |-> ck[t].total_price,
                   payment_mode |-> ck[t].payment_mode,
                   payment_status |-> PaymentStatus(ck[t].payment_mode)])
           /\ ck' = [ck EXCEPT ![t].order_id = id, ![t].i = 1]
    /\ pc' = [pc EXCEPT ![t] = "ck_items"]
    /\ UNCHANGED <<hasCart, cartItems, nextItemId, price, stock,
                   no_of_purchases, orderItems, authVars>>
    /\ UNCHANGED <<verifications, productRows>>

\* 4./5. one iteration of the second loop: the expired product and cart
\* line are reloaded (ObjectDeletedError when the line is gone), an order
\* item is added to the session and the product's stock is lowered in the
\* session
CheckoutLine(t) ==
    /\ pc[t] = "ck_items"
    /\ LET it == ck[t].cart_items[ck[t].i]
           p == it.product_id
           rows == {r \in cartItems : r.id = it.item_id}
           cur == IF p \in DOMAIN ck[t].new_stock THEN ck[t].new_stock[p]
                  ELSE stock[p]
       IN  IF rows = {}
           THEN /\ pc' = [pc EXCEPT ![t] = "done"]
                /\ ck' = [ck EXCEPT ![t].new_items = << >>,
                                    ![t].new_stock = << >>,
                                    ![t].result =
                                        Err(500, "ObjectDeletedError", "none")]
           ELSE LET row == MinId(rows)
                    oi == NewOrderItem(ck[t].order_id, p, row.quantity,
                                       price[p])
                IN  /\ ck' = [ck EXCEPT
                              ![t].new_items = Append(@, oi),
                              ![t].new_stock =
                                  [x \in DOMAIN @ \cup {p} |->
                                      IF x = p
                                      THEN DecreaseStock(cur, row.quantity)
                                      ELSE @[x]],
                              ![t].i = @ + 1]
                    /\ pc' = [pc EXCEPT ![t] =
                              IF ck[t].i = Len(ck[t].cart_items)
                              THEN "ck_commit" ELSE "ck_items"]
    /\ UNCHANGED <<hasCart, cartItems, nextItemId, price, stock,
                   no_of_purchases, orders, orderItems, authVars>>
    /\ UNCHANGED <<verifications, productRows>>

\* 6. delete the cart lines, increment the purchase count, session.commit():
\* the pending inserts, updates and deletes reach the database together
CheckoutCommit(t) ==
    /\ pc[t] = "ck_commit"
    /\ LET c == ck[t].customer_id
           ids == {ck[t].cart_items[k].item_id :
                       k \in 1..Len(ck[t].cart_items)}
       IN  /\ orderItems' = orderItems \o ck[t].new_items
           /\ stock' = [p \in Products |->
                            IF p \in DOMAIN ck[t].new_stock
                            THEN ck[t].new_stock[p] ELSE stock[p]]
           /\ cartItems' = DeleteItems(cartItems, ids)
           /\ no_of_purchases' =
                  [no_of_purchases EXCEPT ![c] = @ + 1]
           /\ ck' = [ck EXCEPT ![t].result = Ok(ck[t].order_id)]
    /\ pc' = [pc EXCEPT ![t] = "done"]
    /\ UNCHANGED <<hasCart, nextItemId, price, orders, authVars>>
    /\ UNCHANGED <<verifications, productRows>>

\* the request dies between two database round trips (worker killed,
\* connection lost): the session is rolled back, committed rows stay
Interrupt(t) ==
    /\ pc[t] \in {"ck_order", "ck_items", "ck_commit"}
    /\ pc' = [pc EXCEPT ![t] = "done"]
    /\ ck' = [ck EXCEPT ![t].new_items = << >>, ![t].new_stock = << >>,
                        ![t].result = Err(500, "interrupted", "none")]
    /\ UNCHANGED <<hasCart, cartItems, nextItemId, price, stock,
                   no_of_purchases, orders, orderItems, authVars>>
    /\ UNCHANGED <<verifications, productRows>>

\* the response is sent and the thread returns to the pool
Return(t) ==
    /\ pc[t] = "done"
    /\ pc' = [pc EXCEPT ![t] = "idle"]
    /\ ck' = [ck EXCEPT ![t] = NoCk]
    /\ rq' = [rq EXCEPT ![t] = NoRq]
    /\ UNCHANGED <<hasCart, cartItems, nextItemId, price, stock,
                   no_of_purchases, orders, orderItems, accounts, resets,
                   nextResetId, tokens, now, ticks, spent>>
    /\ UNCHANGED <<verifications, productRows>>

----------------------------------------------------------------------------
(***************************************************************************)
(* Password reset: forgot_password, reset_password, verify_otp_only.       *)
(***************************************************************************)
\* get_customer_by_email / get_retailer_by_email / get_wholesaler_by_email:
\* select(...).where(mail == mail).first()
AccountsOf(role, mail) == {a \in accounts : a.role = role /\ a.mail = mail}

get_by_email(role, mail) ==
    IF AccountsOf(role, mail) = {} THEN {}
    ELSE {MinId(AccountsOf(role, mail))}

AuthResult(code, detail) == [code |-> code, detail |-> detail]

\* (faulty variant: the OTP stays valid one minute longer)
Expiration_Late(t) == t + OTP_VALID_MINUTES + 1

\* expiration = datetime.utcnow() + timedelta(minutes=10)
Expiration(t) == t + OTP_VALID_MINUTES

\* (faulty variant: the OTP is refused in its last minute)
Expired_OrEqual(rec, t) == rec.expires_at <= t

\* reset_record.expires_at < datetime.utcnow()
Expired(rec, t) == rec.expires_at < t

\* select(PasswordReset).where(email == ..., otp == ...).first()
MatchingResets(email, otp) == {r \in resets : r.email = email /\ r.otp = otp}

\* (faulty variant: the used OTP is left in the table)
DeleteReset_Keep(rows, rec) == rows

\* session.delete(reset_record)
DeleteReset(rows, rec) == rows \ {rec}

\* (faulty variant: the database blocks of coroutines interleave)
LoopFree_Always(t) == TRUE

\* forgot_password and verify_otp_only are coroutines (async def) and their
\* database block holds no await: the event loop runs such a block from its
\* first statement to its commit before it resumes another coroutine.
\* reset_password is a plain def and runs on a pool thread beside the loop.
LoopFree(t) == \A u \in Threads \ {t} : pc[u] # "fp_commit"

\* forgot_password, first part: look the email up in the three account
\* tables, draw the OTP and compute its expiration
ForgotLookup(t, email, otp) ==
    /\ pc[t] = "idle"
    /\ nextResetId <= MaxResets
    /\ IF \A role \in Roles : get_by_email(role, email) = {}
       THEN /\ pc' = [pc EXCEPT ![t] = "done"]
            /\ rq' = [rq EXCEPT ![t] = [NoRq EXCEPT
                       !.op = "forgot_password", !.email = email, !.at = now,
                       !.result = AuthResult(404,
                                     "User with this mail does not exist")]]
       ELSE /\ pc' = [pc EXCEPT ![t] = "fp_select"]
            /\ rq' = [rq EXCEPT ![t] = [NoRq EXCEPT
                       !.op = "forgot_password", !.email = email,
                       !.otp = otp, !.at = now, !.issued_at = now,
                       !.expiration = Expiration(now)]]
    /\ UNCHANGED <<shopVars, accounts, resets, nextResetId, tokens, now,
                   ticks, spent>>
    /\ UNCHANGED <<verifications, productRows>>

\* forgot_password: existing = select(PasswordReset).where(email == email)
ForgotSelect(t) ==
    /\ pc[t] = "fp_select"
    /\ LoopFree(t)
    /\ rq' = [rq EXCEPT ![t].existing =
                 {r \in resets : r.email = rq[t].email}]
    /\ pc' = [pc EXCEPT ![t] = "fp_commit"]
    /\ UNCHANGED <<shopVars, accounts, resets, nextResetId, tokens, now,
                   ticks, spent>>
    /\ UNCHANGED <<verifications, productRows>>

\* forgot_password: delete the records read, add the new one, commit
ForgotCommit(t) ==
    /\ pc[t] = "fp_commit"
    /\ resets' = (resets \ rq[t].existing) \cup
                 {[id |-> nextResetId, email |-> rq[t].email,
                   otp |-> rq[t].otp, expires_at |-> rq[t].expiration,
                   issued_at |-> rq[t].issued_at]}
    /\ nextResetId' = nextResetId + 1
    /\ spent' = {u \in spent : u[1] # rq[t].email}
    /\ rq' = [rq EXCEPT ![t].result =
                 AuthResult(200, "OTP sent to your email.")]
    /\ pc' = [pc EXCEPT ![t] = "done"]
    /\ UNCHANGED <<shopVars, accounts, tokens, now, ticks>>
    /\ UNCHANGED <<verifications, productRows>>

\* the request as the properties see it
AuthRequest(op, email, otp, password) ==
    [NoRq EXCEPT !.op = op, !.email = email, !.otp = otp,
                 !.password = password, !.at = now,
                 !.pre_accounts = accounts, !.pre_resets = resets,
                 !.pre_spent = spent]

\* reset_password
ResetPassword(t, email, otp, new_password) ==
    /\ pc[t] = "idle"
    /\ pc' = [pc EXCEPT ![t] = "done"]
    /\ LET m == MatchingResets(email, otp)
           req == AuthRequest("reset_password", email, otp, new_password)
           users == UNION {get_by_email(role, email) : role \in Roles}
       IN  IF m = {}
           THEN /\ rq' = [rq EXCEPT ![t] = [req EXCEPT
                           !.result = AuthResult(400, "Invalid OTP.")]]
                /\ UNCHANGED <<accounts, resets, spent>>
           ELSE LET rec == MinId(m)
                IN  IF Expired(rec, now)
                    THEN /\ resets' = DeleteReset(resets, rec)
                         /\ rq' = [rq EXCEPT ![t] = [req EXCEPT
                               !.matched = rec,
                               !.result = AuthResult(400, "OTP has expired.")]]
                         /\ UNCHANGED <<accounts, spent>>
                    ELSE IF users = {}
                    THEN /\ rq' = [rq EXCEPT ![t] = [req EXCEPT
                               !.matched = rec,
                               !.result = AuthResult(404,
                                              "User account not found.")]]
                         /\ UNCHANGED <<accounts, resets, spent>>
                    ELSE /\ accounts' = (accounts \ users) \cup
                               {[u EXCEPT !.hashed_password =
                                     hash_password(new_password)] :
                                    u \in users}
                         /\ resets' = DeleteReset(resets, rec)
                         /\ spent' = spent \cup {<<email, otp>>}
                         /\ rq' = [rq EXCEPT ![t] = [req EXCEPT
                               !.matched = rec,
                               !.result = AuthResult(200,
                           "Password updated successfully. You can now login.")]]
    /\ UNCHANGED <<shopVars, nextResetId, tokens, now, ticks>>
    /\ UNCHANGED <<verifications, productRows>>

\* verify_otp_only
VerifyOtpOnly(t, email, otp) ==
    /\ pc[t] = "idle"
    /\ LoopFree(t)
    /\ pc' = [pc EXCEPT ![t] = "done"]
    /\ LET m == MatchingResets(email, otp)
           req == AuthRequest("verify_otp_only", email, otp, "none")
       IN  IF m = {}
           THEN /\ rq' = [rq EXCEPT ![t] = [req EXCEPT
                           !.result = AuthResult(400, "Invalid OTP Code.")]]
                /\ UNCHANGED resets
           ELSE LET rec == MinId(m)
                IN  IF Expired(rec, now)
                    THEN /\ resets' = DeleteReset(resets, rec)
                         /\ rq' = [rq EXCEPT ![t] = [req EXCEPT
                               !.matched = rec,
                               !.result = AuthResult(400, "OTP has expired.")]]
                    ELSE /\ rq' = [rq EXCEPT ![t] = [req EXCEPT
                               !.matched = rec,
                               !.result = AuthResult(200, "OTP is valid.")]]
                         /\ UNCHANGED resets
    /\ UNCHANGED <<shopVars, accounts, nextResetId, tokens, now, ticks, spent>>
    /\ UNCHANGED <<verifications, productRows>>

\* time passes
TickSteps == {1, OTP_VALID_MINUTES, ACCESS_TOKEN_EXPIRE_MINUTES}

Tick(d) ==
    /\ ticks < MaxTicks
    /\ now' = now + d
    /\ ticks' = ticks + 1
    /\ UNCHANGED <<shopVars, pc, accounts, resets, nextResetId, tokens, spent,
                   rq>>
    /\ UNCHANGED <<verifications, productRows>>

----------------------------------------------------------------------------
(***************************************************************************)
(* Login and the get_current_* dependencies.                               *)
(***************************************************************************)
\* create_access_token: the payload with "exp", signed with SECRET_KEY
create_access_token(sub, role, t) ==
    [sub |-> sub, role |-> role, exp |-> t + ACCESS_TOKEN_EXPIRE_MINUTES,
     signed |-> TRUE]

\* the 401 details of the three login endpoints
LoginDetail(role, what) ==
    IF role = "customer"
    THEN (IF what = "mail" THEN "Invalid Credentials: Mail not found"
          ELSE "Invalid Credentials: Password not found")
    ELSE "Invalid Credentials"

\* login_customer / login_retailer / login_wholesaler
Login(t, role, mail, password) ==
    /\ pc[t] = "idle"
    /\ pc' = [pc EXCEPT ![t] = "done"]
    /\ LET found == get_by_email(role, mail)
           req == [AuthRequest("login", mail, "none", password)
                       EXCEPT !.role = role]
       IN  IF found = {}
           THEN /\ rq' = [rq EXCEPT ![t] = [req EXCEPT
                           !.result = AuthResult(401,
                                          LoginDetail(role, "mail"))]]
                /\ UNCHANGED tokens
           ELSE LET user == MinId(found)
                IN  IF ~user.is_verified
                    THEN /\ rq' = [rq EXCEPT ![t] = [req EXCEPT
                               !.result = AuthResult(403,
                           "Account not verified. Please verify your email.")]]
                         /\ UNCHANGED tokens
                    ELSE IF ~verify_password(password, user.hashed_password)
                    THEN /\ rq' = [rq EXCEPT ![t] = [req EXCEPT
                               !.result = AuthResult(401,
                                              LoginDetail(role, "password"))]]
                         /\ UNCHANGED tokens
                    ELSE LET token == create_access_token(user.mail, role, now)
                         IN  /\ Cardinality(tokens \cup {token}) <= MaxTokens
                             /\ tokens' = tokens \cup {token}
                             /\ rq' = [rq EXCEPT ![t] = [req EXCEPT
                                   !.cred = token,
                                   !.result = AuthResult(200, "bearer")]]
    /\ UNCHANGED <<shopVars, accounts, resets, nextResetId, now, ticks, spent>>
    /\ UNCHANGED <<verifications, productRows>>

\* bearer credentials that were not signed with SECRET_KEY
ForgedTokens ==
    {[sub |-> "a@mart", role |-> role, exp |-> 2 * ACCESS_TOKEN_EXPIRE_MINUTES,
      signed |-> FALSE] : role \in Roles}

\* jwt.decode(token, SECRET_KEY, algorithms=[ALGORITHM]) raises JWTError
\* on a bad signature and on an "exp" in the past
DecodeFails(cred, t) == ~cred.signed \/ cred.exp < t

\* (faulty variant: the role of the token is not looked at)
RoleAccepted_Any(dep, user_role) == TRUE

\* the negation of: user_role != "customer" (or "retailer", "wholesaler")
RoleAccepted(dep, user_role) == user_role = dep

\* get_current_customer / get_current_retailer / get_current_wholesaler;
\* dep is the role of the dependency, cred the bearer credential presented:
\* a token some login issued, or a forged one
GetCurrent(t, dep) ==
    /\ pc[t] = "idle"
    /\ pc' = [pc EXCEPT ![t] = "done"]
    /\ \E cred \in tokens \cup ForgedTokens :
         LET req == [AuthRequest("get_current", "none", "none", "none")
                         EXCEPT !.role = dep, !.cred = cred]
             credentials_exception ==
                 AuthResult(401, "Could not validate credentials")
         IN  IF DecodeFails(cred, now) \/ ~RoleAccepted(dep, cred.role)
             THEN rq' = [rq EXCEPT ![t] =
                            [req EXCEPT !.result = credentials_exception]]
             ELSE IF get_by_email(dep, cred.sub) = {}
             THEN rq' = [rq EXCEPT ![t] =
                            [req EXCEPT !.result = credentials_exception]]
             ELSE rq' = [rq EXCEPT ![t] = [req EXCEPT
                            !.user = cred.sub,
                            !.result = AuthResult(200, "user")]]
    /\ UNCHANGED <<shopVars, accounts, resets, nextResetId, tokens, now,
                   ticks, spent>>
    /\ UNCHANGED <<verifications, productRows>>

----------------------------------------------------------------------------
(***************************************************************************)
(* The product catalogue: GET /products and update_product_details.        *)
(* A string is the sequence of its characters; an Optional value is the    *)
(* empty sequence (None) or a sequence of one element.                     *)
(***************************************************************************)
None == << >>
Some(v) == <<v>>

\* the rows of the Product table that no request of the model changes
ProductTable ==
    [p \in Products |->
        IF p = "p1"
        THEN [id |-> 1, name |-> <<"T", "e", "e">>,
              description |-> <<"r", "e", "d">>, category_id |-> 3,
              retailer_id |-> 1]
        ELSE [id |-> 2, name |-> <<"R", "e", "d">>,
              description |-> <<"t", "o", "y">>, category_id |-> 4,
              retailer_id |-> 1]]

\* str.lower(), and the case folding of ILIKE, on one character
LowerChar(ch) ==
    CASE ch = "A" -> "a" [] ch = "D" -> "d" [] ch = "E" -> "e"
      [] ch = "F" -> "f" [] ch = "L" -> "l" [] ch = "R" -> "r"
      [] ch = "T" -> "t" [] OTHER -> ch

Lower(s) == [i \in 1..Len(s) |-> LowerChar(s[i])]

\* col(...).ilike(pattern) for a pattern "%" + q + "%" where q holds no
\* "%": some stretch of the text matches q character by character, "_" in
\* q matching every character
ILike(pattern, text) ==
    \E i \in 1..(Len(text) + 1), j \in 0..Len(text) :
        /\ j + 1 >= i
        /\ j - i + 1 = Len(pattern) - 2
        /\ \A k \in 1..(Len(pattern) - 2) :
               \/ pattern[k + 1] = "_"
               \/ LowerChar(pattern[k + 1]) = LowerChar(text[i + k - 1])

\* str.isdigit() and int()
Digits == <<"0", "1", "2", "3", "4", "5", "6", "7", "8", "9">>
IsDigit(s) == s # << >> /\ \A i \in 1..Len(s) : \E d \in 1..10 : Digits[d] = s[i]
DigitValue(ch) == (CHOOSE d \in 1..10 : Digits[d] = ch) - 1
RECURSIVE ToInt(_)
ToInt(s) == IF s = << >> THEN 0
            ELSE 10 * ToInt(SubSeq(s, 1, Len(s) - 1)) + DigitValue(s[Len(s)])

\* cat_map: the hard-coded category names of get_all_products
cat_map ==
    {<< <<"e", "l", "e", "c", "t", "r", "o", "n", "i", "c", "s">>, 1 >>,
     << <<"g", "r", "o", "c", "e", "r", "i", "e", "s">>, 2 >>,
     << <<"f", "a", "s", "h", "i", "o", "n">>, 3 >>,
     << <<"b", "o", "o", "k", "s">>, 5 >>,
     << <<"s", "p", "o", "r", "t", "s">>, 8 >>,
     << <<"h", "o", "m", "e">>, 7 >>}

\* cat_map.get(name): None or the id
cat_map_get(name) ==
    IF \E e \in cat_map : e[1] = name
    THEN Some((CHOOSE e \in cat_map : e[1] = name)[2])
    ELSE None

\* if q: ... where(or_(name.ilike(search_term), description.ilike(...)))
SearchFilter(q, p) ==
    IF q # None /\ q[1] # << >>
    THEN LET search_term == <<"%">> \o q[1] \o <<"%">>
         IN  \/ ILike(search_term, ProductTable[p].name)
             \/ ILike(search_term, ProductTable[p].description)
    ELSE TRUE

\* if category and category.lower() != "all": ...
CategoryFilter(category, p) ==
    IF category # None /\ category[1] # << >>
           /\ Lower(category[1]) # <<"a", "l", "l">>
    THEN IF IsDigit(category[1])
         THEN ProductTable[p].category_id = ToInt(category[1])
         ELSE LET cat_id == cat_map_get(Lower(category[1]))
              IN  IF cat_id # None
                  THEN ProductTable[p].category_id = cat_id[1]
                  ELSE TRUE
    ELSE TRUE

\* if min_price is not None / if max_price is not None
PriceFilter(min_price, max_price, p) ==
    /\ min_price # None => price[p] >= min_price[1]
    /\ max_price # None => price[p] <= max_price[1]

\* the rows a query can return in the order of key (descending if desc);
\* rows of equal key come in any order
Orderings(S, key, desc) ==
    {s \in [1..Cardinality(S) -> S] :
        /\ \A i, j \in 1..Cardinality(S) : i # j => s[i] # s[j]
        /\ \A i, j \in 1..Cardinality(S) :
               i < j => IF desc THEN key[s[i]] >= key[s[j]]
                                ELSE key[s[i]] <= key[s[j]]}

\* get_all_products (GET /products)
GetAllProducts(t, q, category, min_price, max_price, sort_by) ==
    /\ pc[t] = "idle"
    /\ pc' = [pc EXCEPT ![t] = "done"]
    /\ LET found == {p \in productRows :
                        /\ SearchFilter(q, p)
                        /\ CategoryFilter(category, p)
                        /\ PriceFilter(min_price, max_price, p)}
           ids == [p \in Products |-> ProductTable[p].id]
           rows == IF sort_by = "price_low"
                   THEN Orderings(found, price, FALSE)
                   ELSE IF sort_by = "price_high"
                   THEN Orderings(found, price, TRUE)
                   ELSE Orderings(found, ids, TRUE)
       IN  \E listing \in rows :
               rq' = [rq EXCEPT ![t] =
                         [op |-> "get_all_products", q |-> q,
                          category |-> category, min_price |-> min_price,
                          max_price |-> max_price, sort_by |-> sort_by,
                          listing |-> listing, pre_price |-> price,
                          result |-> AuthResult(200, "products")]]
    /\ UNCHANGED <<shopVars, accounts, resets, nextResetId, tokens, now,
                   ticks, spent>>
    /\ UNCHANGED <<verifications, productRows>>

\* the product ids a request can name: the catalogue and one id that no
\* product has
ProductIds == Products \cup {"p9"}

\* session.get(Product, product_id) finds a row
ProductFound(p) == p \in productRows

\* (faulty variant: every retailer passes the ownership check)
Owns_Anyone(p, retailer_id) == TRUE

\* product.retailer_id != retailer_id is false
Owns(p, retailer_id) == ProductTable[p].retailer_id = retailer_id

\* the request of a retailer as the properties see it
ProductRequest(op, p, retailer_id) ==
    [op |-> op, product |-> p, retailer_id |-> retailer_id,
     pre_price |-> price, pre_stock |-> stock, pre_rows |-> productRows,
     result |-> NoAuthResult]

\* update_product_details: the retailer sets the price and the stock
UpdateProductDetails(t, p, retailer_id, new_price, new_stock) ==
    /\ pc[t] = "idle"
    /\ pc' = [pc EXCEPT ![t] = "done"]
    /\ LET req == ProductRequest("update_product_details", p, retailer_id)
       IN  IF ~ProductFound(p)
           THEN /\ rq' = [rq EXCEPT ![t] = [req EXCEPT !.result =
                             AuthResult(404, "Product not found")]]
                /\ UNCHANGED <<price, stock>>
           ELSE IF ~Owns(p, retailer_id)
           THEN /\ rq' = [rq EXCEPT ![t] = [req EXCEPT !.result =
                             AuthResult(403,
                                 "Not authorized to update this product")]]
                /\ UNCHANGED <<price, stock>>
           ELSE /\ rq' = [rq EXCEPT ![t] = [req EXCEPT !.result =
                             AuthResult(200, "product")]]
                /\ price' = [price EXCEPT ![p] = new_price]
                /\ stock' = [stock EXCEPT ![p] = new_stock]
    /\ UNCHANGED <<hasCart, cartItems, nextItemId, no_of_purchases, orders,
                   orderItems, ck, accounts, resets, nextResetId, tokens,
                   now, ticks, spent>>
    /\ UNCHANGED <<verifications, productRows>>

\* update_product (PUT /retailer/products/{id}): get_product_by_id, the
\* two checks, then update_product_details(product=..., update_data=...),
\* a call with keyword arguments the function does not have: TypeError,
\* answered with 500 before the function body runs
UpdateProduct(t, p, retailer_id) ==
    /\ pc[t] = "idle"
    /\ pc' = [pc EXCEPT ![t] = "done"]
    /\ LET req == ProductRequest("update_product", p, retailer_id)
       IN  rq' = [rq EXCEPT ![t] = [req EXCEPT !.result =
                     IF ~ProductFound(p)
                     THEN AuthResult(404, "Product not found")
                     ELSE IF ~Owns(p, retailer_id)
                     THEN AuthResult(403,
                              "Not authorized to update this product")
                     ELSE AuthResult(500, "Internal Server Error")]]
    /\ UNCHANGED <<shopVars, accounts, resets, nextResetId, tokens, now,
                   ticks, spent>>
    /\ UNCHANGED <<verifications, productRows>>

\* delete_product (DELETE /retailer/products/{id})
DeleteProduct(t, p, retailer_id) ==
    /\ pc[t] = "idle"
    /\ pc' = [pc EXCEPT ![t] = "done"]
    /\ LET req == ProductRequest("delete_product", p, retailer_id)
       IN  IF ~ProductFound(p)
           THEN /\ rq' = [rq EXCEPT ![t] = [req EXCEPT !.result =
                             AuthResult(404, "Product not found")]]
                /\ UNCHANGED productRows
           ELSE IF ~Owns(p, retailer_id)
           THEN /\ rq' = [rq EXCEPT ![t] = [req EXCEPT !.result =
                             AuthResult(403,
                                 "Not authorized to delete this product")]]
                /\ UNCHANGED productRows
           ELSE /\ rq' = [rq EXCEPT ![t] = [req EXCEPT !.result =
                             AuthResult(204, "No Content")]]
                /\ productRows' = productRows \ {p}
    /\ UNCHANGED <<shopVars, accounts, resets, nextResetId, tokens, now,
                   ticks, spent>>
    /\ UNCHANGED verifications

----------------------------------------------------------------------------
(***************************************************************************)
(* The cart view: get_customer_cart (GET /cart) and get_cart_size.         *)
(***************************************************************************)
\* (faulty variant: the line total is the unit price)
DetailedItem_UnitPrice(r) ==
    [product_id |-> ProductTable[r.product_id].id,
     name |-> ProductTable[r.product_id].name,
     price |-> price[r.product_id], quantity |-> r.quantity,
     total_price |-> price[r.product_id]]

\* one entry of get_detailed_cart_items, made from a cart line and its
\* product
DetailedItem(r) ==
    [product_id |-> ProductTable[r.product_id].id,
     name |-> ProductTable[r.product_id].name,
     price |-> price[r.product_id], quantity |-> r.quantity,
     total_price |-> price[r.product_id] * r.quantity]

\* get_detailed_cart_items
get_detailed_cart_items(c) ==
    IF ~hasCart[c] THEN << >>
    ELSE LET rows == SortById({r \in CartRows(c) :
                                  r.product_id \in productRows})
         IN  [k \in 1..Len(rows) |-> DetailedItem(rows[k])]

\* sum(item['quantity'] for item in detailed_items)
RECURSIVE SumQuantity(_)
SumQuantity(items) ==
    IF items = << >> THEN 0
    ELSE Head(items).quantity + SumQuantity(Tail(items))

\* get_customer_cart: a customer without a cart gets one, then the detailed
\* items and their total size are returned
GetCustomerCart(t, c) ==
    /\ pc[t] = "idle"
    /\ pc' = [pc EXCEPT ![t] = "done"]
    /\ hasCart' = [hasCart EXCEPT ![c] = TRUE]
    /\ LET detailed_items == get_detailed_cart_items(c)
       IN  rq' = [rq EXCEPT ![t] =
                     [op |-> "get_customer_cart", customer_id |-> c,
                      items |-> detailed_items,
                      total_size |-> SumQuantity(detailed_items),
                      pre_cartItems |-> cartItems, pre_price |-> price,
                      pre_stock |-> stock,
                      result |-> AuthResult(200, "cart")]]
    /\ UNCHANGED <<cartItems, nextItemId, price, stock, no_of_purchases,
                   orders, orderItems, ck, accounts, resets, nextResetId,
                   tokens, now, ticks, spent>>
    /\ UNCHANGED <<verifications, productRows>>

\* get_cart_size
GetCartSize(t, c) ==
    /\ pc[t] = "idle"
    /\ pc' = [pc EXCEPT ![t] = "done"]
    /\ LET items == IF hasCart[c] THEN SortById(CartRows(c)) ELSE << >>
       IN  rq' = [rq EXCEPT ![t] =
                     [op |-> "get_cart_size", customer_id |-> c,
                      total_size |-> SumQuantity(items),
                      pre_cartItems |-> cartItems, pre_price |-> price,
                      pre_stock |-> stock,
                      result |-> AuthResult(200, "size")]]
    /\ UNCHANGED <<shopVars, accounts, resets, nextResetId, tokens, now,
                   ticks, spent>>
    /\ UNCHANGED <<verifications, productRows>>

----------------------------------------------------------------------------
(***************************************************************************)
(* Signup (signup_customer, signup_retailer, signup_wholesaler) and the    *)
(* Google login (auth_google).  The existence check, the insert and the    *)
(* storing of the verification OTP are separate sessions.                  *)
(***************************************************************************)
\* the autoincrement key of the account table of a role
NextAccountId(role) ==
    LET ids == {a.id : a \in {x \in accounts : x.role = role}}
    IN  IF ids = {} THEN 1 ELSE 1 + (CHOOSE m \in ids : \A k \in ids : k <= m)

\* add_customer / add_retailer / add_wholesaler: the new row; is_verified
\* takes its default
NewAccount(role, mail, hashed_password) ==
    [id |-> NextAccountId(role), role |-> role, mail |-> mail,
     hashed_password |-> hashed_password, is_verified |-> FALSE]

\* signup_retailer and signup_wholesaler pass phone_number and tax_id to
\* add_retailer and add_wholesaler, which take no such parameters: the call
\* raises TypeError
AddAccountRaises(role) == role # "customer"

\* (faulty variant: the existence check reads the retailer table)
AlreadyRegistered_Retailers(role, mail) == get_by_email("retailer", mail) # {}

\* exists = get_customer_by_email(customer.mail) (or retailer, wholesaler)
AlreadyRegistered(role, mail) == get_by_email(role, mail) # {}

\* save_verification_otp: the OTP of the email is stored
save_verification_otp(rows, email, otp) ==
    {v \in rows : v.email # email} \cup {[email |-> email, otp |-> otp]}

JoinRequest(op, role, email, hashed_password) ==
    [op |-> op, role |-> role, email |-> email,
     hashed_password |-> hashed_password, user_id |-> 0,
     result |-> NoAuthResult, pre_accounts |-> accounts,
     pre_verifications |-> verifications]

\* signup: the existence check
SignupCheck(t, role, mail, password) ==
    /\ pc[t] = "idle"
    /\ IF AlreadyRegistered(role, mail)
       THEN /\ pc' = [pc EXCEPT ![t] = "done"]
            /\ rq' = [rq EXCEPT ![t] =
                         [JoinRequest("signup", role, mail,
                                      hash_password(password))
                              EXCEPT !.result =
                                  AuthResult(400, "Email Already Registered")]]
       ELSE /\ pc' = [pc EXCEPT ![t] = "su_add"]
            /\ rq' = [rq EXCEPT ![t] =
                         JoinRequest("signup", role, mail,
                                     hash_password(password))]
    /\ UNCHANGED <<shopVars, accounts, resets, nextResetId, tokens, now,
                   ticks, spent, verifications, productRows>>

\* signup: add_customer / add_retailer / add_wholesaler
SignupAdd(t) ==
    /\ pc[t] = "su_add"
    /\ IF AddAccountRaises(rq[t].role)
       THEN /\ pc' = [pc EXCEPT ![t] = "done"]
            /\ rq' = [rq EXCEPT ![t].result =
                         AuthResult(500, "Internal Server Error")]
            /\ UNCHANGED accounts
       ELSE /\ Cardinality(accounts) < Cardinality(SeedAccounts) + MaxSignups
            /\ accounts' = accounts \cup
                   {NewAccount(rq[t].role, rq[t].email,
                               rq[t].hashed_password)}
            /\ rq' = [rq EXCEPT ![t].user_id = NextAccountId(rq[t].role)]
            /\ pc' = [pc EXCEPT ![t] = "su_otp"]
    /\ UNCHANGED <<shopVars, resets, nextResetId, tokens, now, ticks, spent,
                   verifications, productRows>>

\* signup: otp = generate_otp(); save_verification_otp(mail, otp)
SignupSaveOtp(t, otp) ==
    /\ pc[t] = "su_otp"
    /\ verifications' = save_verification_otp(verifications, rq[t].email, otp)
    /\ rq' = [rq EXCEPT ![t].result = AuthResult(201, "created")]
    /\ pc' = [pc EXCEPT ![t] = "done"]
    /\ UNCHANGED <<shopVars, accounts, resets, nextResetId, tokens, now,
                   ticks, spent, productRows>>

\* auth_google: the lookups in the retailer, wholesaler and customer tables
\* decide the role; a verified account gets its token at once
GoogleLookup(t, email) ==
    /\ pc[t] = "idle"
    /\ LET retailer == get_by_email("retailer", email)
           wholesaler == get_by_email("wholesaler", email)
           customer == get_by_email("customer", email)
           role == IF retailer # {} THEN "retailer"
                   ELSE IF wholesaler # {} THEN "wholesaler"
                   ELSE "customer"
           user == IF retailer # {} THEN retailer
                   ELSE IF wholesaler # {} THEN {}
                   ELSE customer
           req == JoinRequest("auth_google", role, email, "none")
       IN  IF role = "customer" /\ customer = {}
           THEN /\ pc' = [pc EXCEPT ![t] = "go_add"]
                /\ rq' = [rq EXCEPT ![t] = req]
                /\ UNCHANGED tokens
           ELSE IF user # {} /\ ~(MinId(user)).is_verified
           THEN /\ pc' = [pc EXCEPT ![t] = "go_verify"]
                /\ rq' = [rq EXCEPT ![t] =
                             [req EXCEPT !.user_id = (MinId(user)).id]]
                /\ UNCHANGED tokens
           ELSE /\ pc' = [pc EXCEPT ![t] = "done"]
                /\ tokens' = tokens \cup
                                 {create_access_token(email, role, now)}
                /\ rq' = [rq EXCEPT ![t] =
                             [req EXCEPT !.result =
                                             AuthResult(307, "redirect")]]
    /\ UNCHANGED <<shopVars, accounts, resets, nextResetId, now, ticks, spent,
                   verifications, productRows>>

\* auth_google: add_customer(name, mail, random_pass)
GoogleAddCustomer(t) ==
    /\ pc[t] = "go_add"
    /\ Cardinality(accounts) < Cardinality(SeedAccounts) + MaxSignups
    /\ accounts' = accounts \cup
           {NewAccount("customer", rq[t].email, hash_password("random"))}
    /\ rq' = [rq EXCEPT ![t].user_id = NextAccountId("customer")]
    /\ pc' = [pc EXCEPT ![t] = "go_verify"]
    /\ UNCHANGED <<shopVars, resets, nextResetId, tokens, now, ticks, spent,
                   verifications, productRows>>

\* auth_google: s.get(...).is_verified = True; commit; then the token
GoogleVerify(t) ==
    /\ pc[t] = "go_verify"
    /\ accounts' =
           {IF a.role = rq[t].role /\ a.id = rq[t].user_id
            THEN [a EXCEPT !.is_verified = TRUE] ELSE a : a \in accounts}
    /\ tokens' = tokens \cup
                     {create_access_token(rq[t].email, rq[t].role, now)}
    /\ rq' = [rq EXCEPT ![t].result = AuthResult(307, "redirect")]
    /\ pc' = [pc EXCEPT ![t] = "done"]
    /\ UNCHANGED <<shopVars, resets, nextResetId, now, ticks, spent,
                   verifications, productRows>>

\* one step of the request thread t serves
RequestStep(t) ==
    \/ \E c \in Customers, p \in Products, q \in 1..MaxQty :
           AddItemToCart(t, c, p, q)
    \/ \E c \in Customers : CheckoutBegin(t, c, ModeOf(c))
    \/ CheckoutCommitOrder(t)
    \/ CheckoutLine(t)
    \/ CheckoutCommit(t)
    \/ Return(t)

\* the thread pool: the requests interleave at their database round trips
Next == \E t \in Threads : RequestStep(t) \/ Interrupt(t)

Spec == Init /\ [][Next]_vars

\* the thread pool when no request is interrupted
RunNext == \E t \in Threads : RequestStep(t)

SpecRun == Init /\ [][RunNext]_vars

\* requests served one after the other: a pool of one thread
Worker == "t1"

SeqNext == RequestStep(Worker) \/ Interrupt(Worker)

SpecSeq == Init /\ [][SeqNext]_vars

\* the password-reset endpoints, served one request after the other
OtpStep(t) ==
    \/ \E email \in Emails \cup {"nobody@mart"}, otp \in Otps :
           ForgotLookup(t, email, otp)
    \/ ForgotSelect(t)
    \/ ForgotCommit(t)
    \/ \E email \in Emails, otp \in Otps, pw \in Passwords :
           ResetPassword(t, email, otp, pw)
    \/ \E email \in Emails, otp \in Otps : VerifyOtpOnly(t, email, otp)
    \/ Return(t)

OtpNext == OtpStep(Worker) \/ \E d \in TickSteps : Tick(d)

SpecOtp == Init /\ [][OtpNext]_vars

\* login and the authenticated endpoints, served one request after the other
AuthStep(t) ==
    \/ \E role \in Roles, mail \in Emails \cup {"nobody@mart"},
          password \in Passwords : Login(t, role, mail, password)
    \/ \E dep \in Roles : GetCurrent(t, dep)
    \/ Return(t)

AuthNext == AuthStep(Worker) \/ \E d \in TickSteps : Tick(d)

SpecAuth == Init /\ [][AuthNext]_vars

\* the values a client sends as q and as category
SearchTerms ==
    {None, Some(<< >>), Some(<<"r", "e", "d">>), Some(<<"R", "E">>),
     Some(<<"_", "e">>), Some(<<"z">>)}

Categories ==
    {None, Some(<<"a", "l", "l">>), Some(<<"A", "l", "l">>), Some(<<"3">>),
     Some(<<"4">>), Some(<<"F", "a", "s", "h", "i", "o", "n">>),
     Some(<<"t", "o", "y", "s">>)}

PriceBounds == {None} \cup {Some(n) : n \in 0..MaxPrice}

SortKeys == {"newest", "price_low", "price_high"}

Retailers == {1, 2}

\* the catalogue: the retailer edits products, clients list them
ListStep(t) ==
    \/ \E q \in SearchTerms, category \in Categories,
          min_price \in PriceBounds, max_price \in PriceBounds,
          sort_by \in SortKeys :
           GetAllProducts(t, q, category, min_price, max_price, sort_by)
    \/ \E p \in Products, r \in Retailers, new_price \in 0..MaxPrice :
           UpdateProductDetails(t, p, r, new_price, MaxStock)
    \/ Return(t)

ListNext == ListStep(Worker)

SpecList == Init /\ [][ListNext]_vars

\* the cart of a customer: lines are added, the retailer changes prices,
\* the customer looks at the cart
CartStep(t) ==
    \/ \E c \in Customers, p \in Products, q \in 1..MaxQty :
           AddItemToCart(t, c, p, q)
    \/ \E p \in Products, r \in Retailers, new_price \in 0..MaxPrice :
           UpdateProductDetails(t, p, r, new_price, MaxStock)
    \/ \E c \in Customers : GetCustomerCart(t, c)
    \/ \E c \in Customers : GetCartSize(t, c)
    \/ Return(t)

CartNext == CartStep(Worker)

SpecCart == Init /\ [][CartNext]_vars

\* one customer thread, and a retailer who changes prices while the
\* customer's requests are in progress
RetailerThread == "t2"

RetailStep(t) ==
    \/ \E p \in Products, r \in Retailers, new_price \in 1..MaxPrice :
           UpdateProductDetails(t, p, r, new_price, MaxStock)
    \/ Return(t)

\* the requests of one customer
CustomerStep(t, c) ==
    \/ \E p \in Products, q \in 1..MaxQty : AddItemToCart(t, c, p, q)
    \/ CheckoutBegin(t, c, ModeOf(c))
    \/ CheckoutCommitOrder(t)
    \/ CheckoutLine(t)
    \/ CheckoutCommit(t)
    \/ Return(t)

PriceNext == CustomerStep(Worker, "c1") \/ RetailStep(RetailerThread)

SpecPrice == Init /\ [][PriceNext]_vars

\* the emails people sign up with: one that has accounts, two that are new
JoinEmails == {"b@mart", "m@mart", "n@mart"}

\* signup and Google login
JoinStep(t) ==
    \/ \E role \in Roles, mail \in JoinEmails, password \in {"pw1"} :
           SignupCheck(t, role, mail, password)
    \/ SignupAdd(t)
    \/ \E otp \in Otps : SignupSaveOtp(t, otp)
    \/ \E email \in JoinEmails : GoogleLookup(t, email)
    \/ GoogleAddCustomer(t)
    \/ GoogleVerify(t)
    \/ Return(t)

\* served one request after the other
JoinSeqNext == JoinStep(Worker)

SpecJoinSeq == Init /\ [][JoinSeqNext]_vars

\* served by the thread pool
JoinNext == \E t \in Threads : JoinStep(t)

SpecJoin == Init /\ [][JoinNext]_vars

\* the password-reset endpoints, served concurrently
ForgotStep(t) ==
    \/ \E email \in Emails \cup {"nobody@mart"}, otp \in Otps :
           ForgotLookup(t, email, otp)
    \/ ForgotSelect(t)
    \/ ForgotCommit(t)
    \/ \E email \in Emails, otp \in Otps : ResetPassword(t, email, otp, "pw1")
    \/ \E email \in Emails, otp \in Otps : VerifyOtpOnly(t, email, otp)
    \/ Return(t)

ForgotNext == \E t \in Threads : ForgotStep(t)

SpecForgot == Init /\ [][ForgotNext]_vars

\* customer signups and password resets for the same emails, served
\* concurrently
RecoverEmails == {"a@mart", "n@mart"}

RecoverStep(t) ==
    \/ SignupCheck(t, "customer", "n@mart", "pw0")
    \/ SignupAdd(t)
    \/ SignupSaveOtp(t, "111111")
    \/ \E email \in RecoverEmails : ForgotLookup(t, email, "222222")
    \/ ForgotSelect(t)
    \/ ForgotCommit(t)
    \/ \E email \in RecoverEmails, otp \in Otps :
           ResetPassword(t, email, otp, "pw1")
    \/ Return(t)

RecoverNext == \E t \in Threads : RecoverStep(t)

SpecRecover == Init /\ [][RecoverNext]_vars

\* the retailer endpoints on products, served one request after the other
ShelfStep(t) ==
    \/ \E p \in ProductIds, r \in Retailers : UpdateProduct(t, p, r)
    \/ \E p \in ProductIds, r \in Retailers : DeleteProduct(t, p, r)
    \/ \E p \in ProductIds, r \in Retailers,
          new_price \in 1..MaxPrice, new_stock \in 0..MaxStock :
           UpdateProductDetails(t, p, r, new_price, new_stock)
    \/ Return(t)

ShelfNext == ShelfStep(Worker)

SpecShelf == Init /\ [][ShelfNext]_vars

----------------------------------------------------------------------------
(***************************************************************************)
(* Properties of process_checkout.                                         *)
(***************************************************************************)
Quiescent == \A t \in Threads : pc[t] \in {"idle", "done"}

\* thread t has finished a process_checkout call and holds its outcome
Finished(t) == pc[t] = "done" /\ ck[t].customer_id # "none"
Succeeded(t) == Finished(t) /\ ck[t].result.code = 200
Insufficient(t) == /\ Finished(t)
                   /\ ck[t].result.code = 400
                   /\ ck[t].result.detail = "Insufficient stock"

\* the cart lines customer c had when the call of thread t started
PreRows(t, c) == {r \in ck[t].pre.cartItems : r.customer_id = c}
OwnPreRows(t) == PreRows(t, ck[t].customer_id)

RECURSIVE SumOver(_, _)
SumOver(S, f) == IF S = {} THEN 0
                 ELSE LET r == CHOOSE x \in S : TRUE
                      IN  f[r] + SumOver(S \ {r}, f)

ItemsOfOrder(id) == {k \in 1..Len(orderItems) :
                        orderItems[k].orderrecords_id = id}

\* C1: process_checkout is all-or-nothing: once no checkout is in progress,
\* every order row has its order items (and with them the stock decrement
\* and the cart clearing that are committed together with the items).
C1_AllOrNothing ==
    Quiescent => \A id \in 1..Len(orders) : ItemsOfOrder(id) # {}

\* C2: when a line of the cart asks for more than the product's stock, the
\* call ends with 400 "Insufficient stock" naming such a product and the
\* database is as it was: no order, no order item, every stock, every cart
\* line and every purchase counter unchanged.
C2_InsufficientStockAborts ==
    \A t \in Threads :
        Finished(t) =>
            LET short == {r \in OwnPreRows(t) :
                             ck[t].pre.stock[r.product_id] < r.quantity}
            IN  short # {} =>
                    /\ Insufficient(t)
                    /\ ck[t].result.product \in {r.product_id : r \in short}
                    /\ orders = ck[t].pre.orders
                    /\ orderItems = ck[t].pre.orderItems
                    /\ stock = ck[t].pre.stock
                    /\ cartItems = ck[t].pre.cartItems
                    /\ no_of_purchases = ck[t].pre.no_of_purchases

\* a checkout was refused for one line although another line of the same
\* cart had enough stock
C2_Witness ==
    \E t \in Threads :
        /\ Insufficient(t)
        /\ \E r \in OwnPreRows(t) :
               /\ r.product_id # ck[t].result.product
               /\ ck[t].pre.stock[r.product_id] >= r.quantity

\* C3: the total_price of the order a successful checkout created is the
\* sum of price * quantity over the cart lines, at the prices and
\* quantities the cart held when the checkout started.
C3_TotalIsCartSum ==
    \A t \in Threads :
        Succeeded(t) =>
            LET LineCost == [r \in OwnPreRows(t) |->
                                ck[t].pre.price[r.product_id] * r.quantity]
            IN  orders[ck[t].result.order_id].total_price =
                    SumOver(OwnPreRows(t), LineCost)

\* a successful checkout of a cart with two lines of different cost
C3_Witness ==
    \E t \in Threads :
        /\ Succeeded(t)
        /\ \E r1, r2 \in OwnPreRows(t) :
               ck[t].pre.price[r1.product_id] * r1.quantity #
                   ck[t].pre.price[r2.product_id] * r2.quantity

C5_StockDecrement ==
    \A t \in Threads :
        Succeeded(t) =>
            \A p \in Products :
                LET lines == {r \in OwnPreRows(t) : r.product_id = p}
                    Qty == [r \in lines |-> r.quantity]
                IN  stock[p] = ck[t].pre.stock[p] - SumOver(lines, Qty)

\* a successful checkout that bought two units of one product and left the
\* other product alone
C5_Witness ==
    \E t \in Threads :
        /\ Succeeded(t)
        /\ \E r \in OwnPreRows(t) : r.quantity >= 2
        /\ \E p \in Products :
               /\ \A r \in OwnPreRows(t) : r.product_id # p
               /\ ck[t].pre.stock[p] > 0

C7_PurchasesCountOrders ==
    Quiescent =>
        \A c \in Customers :
            no_of_purchases[c] =
                Cardinality({id \in 1..Len(orders) :
                                orders[id].customer_id = c})

----------------------------------------------------------------------------
\* thread t has finished a reset_password or verify_otp_only call
OtpCall(t) ==
    pc[t] = "done" /\ rq[t].op \in {"reset_password", "verify_otp_only"}

\* the reset records that carried the pair of the call when it was made
PreMatch(t) ==
    {r \in rq[t].pre_resets : r.email = rq[t].email /\ r.otp = rq[t].otp}

\* C8: an OTP that forgot_password issued at time t is accepted by
\* reset_password and verify_otp_only only while the current time is at most
\* t + 10 minutes; later the call is answered 400 "OTP has expired.", the
\* reset record is deleted and no account's password changes.
C8_OtpTimeLimited ==
    \A t \in Threads :
        OtpCall(t) =>
            \A rec \in PreMatch(t) :
                /\ rq[t].result.code = 200 => rq[t].at <= rec.issued_at + 10
                /\ rq[t].at > rec.issued_at + 10 =>
                       /\ rq[t].result.code = 400
                       /\ rq[t].result.detail = "OTP has expired."
                       /\ rec \notin resets
                       /\ accounts = rq[t].pre_accounts

C8_Witness ==
    \E t \in Threads :
        /\ OtpCall(t)
        /\ \E rec \in PreMatch(t) : rq[t].at > rec.issued_at + 10
        /\ rq[t].result.detail = "OTP has expired."
        /\ PreMatch(t) \cap resets = {}

\* C9: once reset_password has succeeded with an (email, otp) pair the reset
\* record is gone, and until forgot_password issues a new OTP for the email
\* every later reset_password or verify_otp_only call with the pair is
\* answered 400 and changes no password.
C9_OtpOneTime ==
    \A t \in Threads :
        OtpCall(t) =>
            /\ (rq[t].op = "reset_password" /\ rq[t].result.code = 200) =>
                   MatchingResets(rq[t].email, rq[t].otp) = {}
            /\ <<rq[t].email, rq[t].otp>> \in rq[t].pre_spent =>
                   /\ rq[t].result.code = 400
                   /\ accounts = rq[t].pre_accounts

C9_Witness ==
    \E t \in Threads :
        /\ OtpCall(t)
        /\ <<rq[t].email, rq[t].otp>> \in rq[t].pre_spent
        /\ rq[t].result.code = 400
        /\ \E a \in accounts : a.hashed_password # hash_password("pw0")

\* thread t has finished a get_current_* call
CurrentCall(t) == pc[t] = "done" /\ rq[t].op = "get_current"

\* C10: a token issued with role R is accepted by a get_current_* dependency
\* only when the role of the dependency is R; under any other dependency the
\* answer is 401 "Could not validate credentials", also when an account with
\* the token's email exists under the role of that dependency.
C10_RoleSeparation ==
    \A t \in Threads :
        CurrentCall(t) =>
            /\ rq[t].result.code = 200 =>
                   rq[t].cred \in tokens /\ rq[t].cred.role = rq[t].role
            /\ (rq[t].cred \in tokens /\ rq[t].cred.role # rq[t].role) =>
                   /\ rq[t].result.code = 401
                   /\ rq[t].result.detail = "Could not validate credentials"
                   /\ rq[t].user = "none"

C10_Witness ==
    \E t \in Threads :
        /\ CurrentCall(t)
        /\ rq[t].cred \in tokens
        /\ rq[t].cred.role # rq[t].role
        /\ AccountsOf(rq[t].role, rq[t].cred.sub) # {}
        /\ rq[t].result.code = 401

\* the call of thread t carried a pair that matched a reset record issued
\* at most 10 minutes before the call
Unexpired(t) == \E rec \in PreMatch(t) : rq[t].at <= rec.issued_at + 10

\* C11: verify_otp_only with a matching, unexpired pair answers "OTP is
\* valid." and changes nothing: the reset records and every account are as
\* before; and reset_password with a matching, unexpired pair succeeds, so
\* the reset that follows the verification still goes through.
C11_VerifyChangesNothing ==
    \A t \in Threads :
        (OtpCall(t) /\ Unexpired(t)) =>
            /\ rq[t].result.code = 200
            /\ rq[t].op = "verify_otp_only" =>
                   /\ rq[t].result.detail = "OTP is valid."
                   /\ resets = rq[t].pre_resets
                   /\ accounts = rq[t].pre_accounts
                   /\ PreMatch(t) \subseteq
                          MatchingResets(rq[t].email, rq[t].otp)

C11_Witness ==
    \E t \in Threads :
        /\ OtpCall(t)
        /\ rq[t].op = "verify_otp_only"
        /\ \E rec \in PreMatch(t) : rq[t].at = rec.issued_at + 10
        /\ rq[t].result.detail = "OTP is valid."
        /\ MatchingResets(rq[t].email, rq[t].otp) # {}

\* thread t has finished a login call
LoginCall(t) == pc[t] = "done" /\ rq[t].op = "login"

\* the accounts of the role and email of the login call of thread t
LoginAccounts(t) ==
    {a \in rq[t].pre_accounts : a.role = rq[t].role /\ a.mail = rq[t].email}

NotVerifiedDetail == "Account not verified. Please verify your email."

\* C12: login answers 401 when no account of the role has the email, 403
\* when the account is not verified (whatever the password), 401 when the
\* password hash differs, and issues a token with the account's email and the
\* role only for a verified account and the right password; no token is ever
\* issued for an unverified account.
C12_LoginVerifiedOnly ==
    /\ \A tok \in tokens :
           \E a \in accounts :
               a.role = tok.role /\ a.mail = tok.sub /\ a.is_verified
    /\ \A t \in Threads :
           LoginCall(t) =>
               /\ LoginAccounts(t) = {} =>
                      rq[t].result.code = 401 /\ rq[t].cred = NoToken
               /\ \A a \in LoginAccounts(t) :
                      /\ ~a.is_verified =>
                             /\ rq[t].result.code = 403
                             /\ rq[t].result.detail = NotVerifiedDetail
                             /\ rq[t].cred = NoToken
                      /\ (/\ a.is_verified
                          /\ a.hashed_password # <<"sha256", rq[t].password>>)
                             => rq[t].result.code = 401 /\ rq[t].cred = NoToken
                      /\ (/\ a.is_verified
                          /\ a.hashed_password = <<"sha256", rq[t].password>>)
                             => /\ rq[t].result.code = 200
                                /\ rq[t].cred \in tokens
                                /\ rq[t].cred.sub = a.mail
                                /\ rq[t].cred.role = rq[t].role

C12_Witness ==
    \E t \in Threads :
        /\ LoginCall(t)
        /\ \E a \in LoginAccounts(t) :
               ~a.is_verified /\ a.hashed_password = <<"sha256", rq[t].password>>
        /\ rq[t].result.code = 403
        /\ \E tok \in tokens : tok.role # rq[t].role

----------------------------------------------------------------------------
\* thread t has finished a GET /products call
ListCall(t) == pc[t] = "done" /\ rq[t].op = "get_all_products"

\* q is a substring of text, the case of the letters left aside
ContainsNoCase(text, q) ==
    \E i \in 0..(Len(text) - Len(q)) :
        \A k \in 1..Len(q) : LowerChar(text[i + k]) = LowerChar(q[k])

\* product p belongs to the category given as numeric id or as name
BelongsTo(p, category) ==
    IF IsDigit(category)
    THEN ProductTable[p].category_id = ToInt(category)
    ELSE \E e \in cat_map :
             e[1] = Lower(category) /\ e[2] = ProductTable[p].category_id

\* a category other than "all" was supplied
CategorySupplied(category) ==
    /\ category # None
    /\ category[1] # << >>
    /\ Lower(category[1]) # <<"a", "l", "l">>

\* the products that satisfy every filter of the call of thread t
Satisfying(t) ==
    {p \in Products :
        /\ rq[t].q # None =>
               \/ ContainsNoCase(ProductTable[p].name, rq[t].q[1])
               \/ ContainsNoCase(ProductTable[p].description, rq[t].q[1])
        /\ rq[t].min_price # None => rq[t].pre_price[p] >= rq[t].min_price[1]
        /\ rq[t].max_price # None => rq[t].pre_price[p] <= rq[t].max_price[1]
        /\ CategorySupplied(rq[t].category) =>
               BelongsTo(p, rq[t].category[1])}

Listed(t) == {rq[t].listing[i] : i \in 1..Len(rq[t].listing)}

\* C13: GET /products returns exactly the products that satisfy every
\* supplied filter: q is a case-insensitive substring of the name or the
\* description, min_price <= price <= max_price (a bound of 0 applies), and
\* the product belongs to the category supplied (numeric id or name) unless
\* that is "all".
C13_ListingIsFiltered ==
    \A t \in Threads : ListCall(t) => Listed(t) = Satisfying(t)

----------------------------------------------------------------------------
\* thread t has finished a cart view
CartCall(t) ==
    pc[t] = "done" /\ rq[t].op \in {"get_customer_cart", "get_cart_size"}

\* the cart lines of the customer of the call
ViewedRows(t) == {r \in cartItems : r.customer_id = rq[t].customer_id}

----------------------------------------------------------------------------
\* C15: starting from non-negative stocks no product's stock is ever
\* negative, under every interleaving of checkouts and add-to-cart calls.
C15_StockNeverNegative == \A p \in Products : stock[p] >= 0

----------------------------------------------------------------------------
\* C16: the total_price of an order equals the sum of price_at_purchase *
\* quantity over the order's items, also when a price or a cart quantity
\* changes while the checkout is in progress.  (Stated for the orders that
\* have their items: an order row left without items is the subject of C1.)
C16_TotalMatchesItems ==
    \A id \in 1..Len(orders) :
        ItemsOfOrder(id) # {} =>
            orders[id].total_price =
                SumOver(ItemsOfOrder(id),
                        [k \in ItemsOfOrder(id) |->
                            orderItems[k].price_at_purchase
                                * orderItems[k].quantity])

----------------------------------------------------------------------------
\* the call of thread t left orders, order items, stocks and purchase
\* counters as they were
NothingOrdered(t) ==
    /\ orders = ck[t].pre.orders
    /\ orderItems = ck[t].pre.orderItems
    /\ stock = ck[t].pre.stock
    /\ no_of_purchases = ck[t].pre.no_of_purchases

\* C17: process_checkout for a customer without a cart ends with 404 "Cart
\* not found", for a cart without lines with 400 "Cart is empty"; neither
\* creates an order row, changes a stock or changes no_of_purchases.
C17_NoCartOrEmptyCart ==
    \A t \in Threads :
        Finished(t) =>
            /\ ~ck[t].pre.hasCart[ck[t].customer_id] =>
                   /\ ck[t].result.code = 404
                   /\ ck[t].result.detail = "Cart not found"
                   /\ NothingOrdered(t)
            /\ (/\ ck[t].pre.hasCart[ck[t].customer_id]
                /\ OwnPreRows(t) = {}) =>
                   /\ ck[t].result.code = 400
                   /\ ck[t].result.detail = "Cart is empty"
                   /\ NothingOrdered(t)

\* a checkout without a cart, while another customer has lines and an order
C17_Witness ==
    \E t \in Threads :
        /\ Finished(t)
        /\ ~ck[t].pre.hasCart[ck[t].customer_id]
        /\ ck[t].result.code = 404
        /\ \E o \in Customers : PreRows(t, o) # {}
        /\ Len(orders) > 0

----------------------------------------------------------------------------
\* C18: an order created by process_checkout has status "Processing", and
\* its payment_status is "Pending" exactly when its payment_mode is "Cash on
\* Delivery" and "Completed" for every other payment_mode.
C18_OrderStatus ==
    \A id \in 1..Len(orders) :
        /\ orders[id].status = "Processing"
        /\ orders[id].payment_mode = "Cash on Delivery" =>
               orders[id].payment_status = "Pending"
        /\ orders[id].payment_mode # "Cash on Delivery" =>
               orders[id].payment_status = "Completed"

\* an order paid on delivery and an order paid by UPI
C18_Witness ==
    \E i, j \in 1..Len(orders) :
        /\ orders[i].payment_mode = "Cash on Delivery"
        /\ orders[i].payment_status = "Pending"
        /\ orders[j].payment_mode = "UPI"
        /\ orders[j].payment_status = "Completed"

----------------------------------------------------------------------------
\* thread t has finished a signup call
SignupCall(t) == pc[t] = "done" /\ rq[t].op = "signup"

\* the accounts of the role and email of the signup, before the call
SignupAccounts(t) ==
    {a \in rq[t].pre_accounts : a.role = rq[t].role /\ a.mail = rq[t].email}

\* C19: signing up with an email that has an account of the role ends with
\* 400 "Email Already Registered", creates no account, stores no
\* verification OTP and leaves every account as it was.
C19_DuplicateSignupRejected ==
    \A t \in Threads :
        (SignupCall(t) /\ SignupAccounts(t) # {}) =>
            /\ rq[t].result.code = 400
            /\ rq[t].result.detail = "Email Already Registered"
            /\ accounts = rq[t].pre_accounts
            /\ verifications = rq[t].pre_verifications

\* a rejected signup for an account that a signup created before
C19_Witness ==
    \E t \in Threads :
        /\ SignupCall(t)
        /\ \E a \in SignupAccounts(t) : a \notin SeedAccounts
        /\ rq[t].result.code = 400
        /\ verifications # {}

\* C20: within one role no two accounts share an email, under every
\* interleaving of signups and Google logins.
C20_EmailUniquePerRole ==
    \A a, b \in accounts : (a.role = b.role /\ a.mail = b.mail) => a = b

----------------------------------------------------------------------------
\* the reset records of an email in a table
ResetsOf(rows, email) == {r \in rows : r.email = email}

\* C21: forgot_password replaces any outstanding OTP: when it completes for
\* an email, the one reset record of that email is the new one with the new
\* OTP, so the records of earlier calls are gone; and no state, also after
\* concurrent forgot_password calls, holds two reset records for one email.
C21_ForgotReplacesOtp ==
    [][/\ \A r1, r2 \in resets' : r1.email = r2.email => r1 = r2
       /\ \A t \in Threads :
              ForgotCommit(t) =>
                  /\ Cardinality(ResetsOf(resets', rq[t].email)) = 1
                  /\ \A r \in ResetsOf(resets', rq[t].email) :
                         /\ r.otp = rq[t].otp
                         /\ r \notin resets]_vars

\* two forgot_password calls for one email overlapped, and the one that
\* finished last replaced the record and OTP of the other
C21_Witness ==
    \E t, u \in Threads :
        /\ t # u
        /\ pc[t] = "done" /\ rq[t].op = "forgot_password"
        /\ pc[u] = "done" /\ rq[u].op = "forgot_password"
        /\ rq[t].email = rq[u].email
        /\ rq[t].otp # rq[u].otp
        /\ rq[t].result.code = 200 /\ rq[u].result.code = 200
        /\ \E r \in rq[t].existing : r.otp = rq[u].otp
        /\ \A r \in ResetsOf(resets, rq[t].email) : r.otp = rq[t].otp
        /\ ResetsOf(resets, rq[t].email) # {}

----------------------------------------------------------------------------
\* thread t serves a whole reset_password call in this step
ResetCall(t) ==
    pc[t] = "idle" /\ pc'[t] = "done" /\ rq'[t].op = "reset_password"

\* C22: a successful reset_password gives the new password hash to every
\* account with the email of the request, in all three roles, and leaves
\* the accounts with another email as they were; when no account has the
\* email it answers 404, changes no account and keeps the reset record.
C22_ResetSetsEveryRole ==
    [][\A t \in Threads :
           ResetCall(t) =>
               /\ rq'[t].result.code = 200 =>
                      /\ \A a \in accounts' :
                             a.mail = rq'[t].email =>
                                 a.hashed_password =
                                     hash_password(rq'[t].password)
                      /\ {a \in accounts' : a.mail # rq'[t].email} =
                         {a \in accounts : a.mail # rq'[t].email}
               /\ rq'[t].result.code = 404 =>
                      accounts' = accounts /\ resets' = resets]_vars

----------------------------------------------------------------------------
\* thread t has finished a request of a retailer on a product
ShelfCall(t) ==
    /\ pc[t] = "done"
    /\ rq[t].op \in {"update_product", "delete_product",
                     "update_product_details"}

\* the product rows are as they were when the request of t started
ProductsUntouched(t) ==
    /\ price = rq[t].pre_price
    /\ stock = rq[t].pre_stock
    /\ productRows = rq[t].pre_rows

\* C23: updating or deleting a product that does not exist answers 404 and
\* a product of another retailer 403; in both cases price, stock and
\* existence of every product are unchanged.
C23_OnlyOwnProducts ==
    \A t \in Threads :
        ShelfCall(t) =>
            /\ rq[t].product \notin rq[t].pre_rows =>
                   rq[t].result.code = 404 /\ ProductsUntouched(t)
            /\ (/\ rq[t].product \in rq[t].pre_rows
                /\ ProductTable[rq[t].product].retailer_id # rq[t].retailer_id)
                   => rq[t].result.code = 403 /\ ProductsUntouched(t)

\* a retailer who does not own it is refused the delete of a product that
\* exists, after another product was deleted by its owner
C23_Witness ==
    \E t \in Threads :
        /\ ShelfCall(t)
        /\ rq[t].op = "delete_product"
        /\ rq[t].product \in rq[t].pre_rows
        /\ ProductTable[rq[t].product].retailer_id # rq[t].retailer_id
        /\ rq[t].result.code = 403
        /\ productRows # Products
=============================================================================
